---- MODULE Spec2Model ----
(***************************************************************************)
(* Token authentication service (gRPC AuthService / JWTService /           *)
(* RateLimiter over a MongoDB store).                                       *)
(*                                                                         *)
(* Time is counted in ticks.  A JWT NumericDate is truncated to a whole    *)
(* second of TimePrecision ticks; store timestamps keep the tick.  The     *)
(* durations of the program (token TTL, rate window, attempt retention)    *)
(* are scaled to a few ticks, keeping their order.                         *)
(*                                                                         *)
(* Each gRPC handler is one action: a handler's store operations are taken *)
(* without another request in between.  A store operation may fail; the    *)
(* set f of an action names the store operations that fail in that call.   *)
(***************************************************************************)
EXTENDS Integers, FiniteSets, Sequences, Bags, TLC

VARIABLES now, users, tokens, attempts, issued, loggedOut, resp, calls

vars == <<now, users, tokens, attempts, issued, loggedOut, resp, calls>>

(***************************************************************************)
(* Bounds of the model.                                                    *)
(***************************************************************************)
MaxTime == 3
MaxAttempts == 2
RLMaxTime == 2
RLMaxAttempts == 6
JWTMaxTime == 2
JWTMaxRecords == 2
USMaxTime == 2
USMaxAttempts == 2
LOMaxTime == 2
CCMaxTime == 1
CCMaxAttempts == 6

(***************************************************************************)
(* Program constants (durations scaled to ticks).                          *)
(***************************************************************************)
TimePrecision == 2
TokenTTL == 2
RateWindow == 1
RateLimit == 5
AttemptRetention == 2
RevocationExpireAfter == 0

(***************************************************************************)
(* Request inputs.                                                         *)
(***************************************************************************)
WellFormedEmails == {"a@x.com", "b@x.com", " a@x.com "}
StrongPasswords == {"Str0ng!Pass"}
Passwords == {"Str0ng!Pass", "weak", ""}
Names == {" A ", "4"}
Salts == {"s1"}
HexIDs == {"id1", "id2"}
UserIDs == {"id1", "zz", ""}

NoMD == [real |-> <<>>, fwd |-> <<>>]
Metadata == {NoMD, [real |-> <<"ip1">>, fwd |-> <<"ip2">>], [real |-> <<>>, fwd |-> <<"ip1">>]}

(***************************************************************************)
(* utils: validation, hashing, sanitising.                                 *)
(***************************************************************************)
SanitizeString(s) ==
    CASE s = " a@x.com " -> "a@x.com"
      [] s = " A " -> "A"
      [] OTHER -> s

ValidateEmail(email) ==
    IF email = "" THEN "email: email is required"
    ELSE IF email \notin WellFormedEmails THEN "email: invalid email format"
    ELSE "nil"

ValidatePassword(password) ==
    IF password = "" THEN "password: password is required"
    ELSE IF password \notin StrongPasswords THEN "password: password must contain"
    ELSE "nil"

ValidateName(name) ==
    IF name = "" THEN "name: name is required"
    ELSE IF name \notin {"A"} THEN "name: name contains invalid characters"
    ELSE "nil"

HashPassword(password, salt) == [alg |-> "bcrypt", salt |-> salt, pw |-> password]

\* Mutant of CheckPasswordHash: any secret verifies.
CheckPasswordHashAlways(password, hash) == hash.alg = "bcrypt"

CheckPasswordHash(password, hash) == hash.alg = "bcrypt" /\ hash.pw = password

getClientIP(md) ==
    IF Len(md.real) > 0 THEN md.real[1]
    ELSE IF Len(md.fwd) > 0 THEN md.fwd[1]
    ELSE "unknown"

(***************************************************************************)
(* Token strings.  A signed token is the record of its header, claims and  *)
(* signature: HS256 signing is deterministic, so two tokens are the same   *)
(* string exactly when these agree.                                        *)
(***************************************************************************)
NoToken == [form |-> "none"]
EmptyToken == [form |-> "empty"]
GarbageToken == [form |-> "garbage"]

Tamper(t) == IF t.form = "jwt" THEN [t EXCEPT !.sig = "tampered"] ELSE t

Truncate(t, d) == t - (t % d)

NewNumericDate(t) == Truncate(t, TimePrecision)

\* Mutant of GenerateToken: the subject claims carry the email.
GenerateTokenSubjectEmail(userID, email, at) ==
    [form |-> "jwt", alg |-> "HS256", sig |-> "key",
     user_id |-> email, email |-> email,
     exp |-> NewNumericDate(at + TokenTTL),
     iat |-> NewNumericDate(at),
     nbf |-> NewNumericDate(at),
     sub |-> email]

GenerateToken(userID, email, at) ==
    [form |-> "jwt", alg |-> "HS256", sig |-> "key",
     user_id |-> userID, email |-> email,
     exp |-> NewNumericDate(at + TokenTTL),
     iat |-> NewNumericDate(at),
     nbf |-> NewNumericDate(at),
     sub |-> userID]

\* JWTService.GenerateToken of a service constructed with the given tokenTTL.
GenerateTokenTTL(userID, email, at, tokenTTL) ==
    [GenerateToken(userID, email, at) EXCEPT !.exp = NewNumericDate(at + tokenTTL)]

\* Mutant of ParseWithClaims: a token is still good at its exp.
ParseWithClaimsGoodAtExp(tokenString, checkMethod, at) ==
    IF tokenString.form # "jwt" THEN "token is malformed"
    ELSE IF checkMethod /\ tokenString.alg # "HS256" THEN "token is unverifiable"
    ELSE IF tokenString.alg # "HS256" \/ tokenString.sig # "key" THEN "token signature is invalid"
    ELSE IF at > tokenString.exp THEN "token is expired"
    ELSE IF at < tokenString.nbf THEN "token is not valid yet"
    ELSE "nil"

\* jwt.ParseWithClaims: the segments are decoded, the key function may refuse
\* the signing method, the signature is verified, then exp and nbf.
ParseWithClaims(tokenString, checkMethod, at) ==
    IF tokenString.form # "jwt" THEN "token is malformed"
    ELSE IF checkMethod /\ tokenString.alg # "HS256" THEN "token is unverifiable"
    ELSE IF tokenString.alg # "HS256" \/ tokenString.sig # "key" THEN "token signature is invalid"
    ELSE IF ~(at < tokenString.exp) THEN "token is expired"
    ELSE IF at < tokenString.nbf THEN "token is not valid yet"
    ELSE "nil"

FindToken(tks, tokenString) == {d \in tks : d.token = tokenString}

\* Mutant of ValidateToken: the token is parsed before the blacklist is read.
ValidateTokenParseFirst(tks, tokenString, at, f) ==
    LET parsed == ParseWithClaims(tokenString, TRUE, at)
    IN  IF parsed = "token is expired"
        THEN [err |-> "ErrTokenExpired", claims |-> NoToken]
        ELSE IF parsed # "nil"
        THEN [err |-> "ErrInvalidToken", claims |-> NoToken]
        ELSE IF "lookup" \in f
        THEN [err |-> "error checking token blacklist", claims |-> NoToken]
        ELSE IF FindToken(tks, tokenString) # {}
        THEN [err |-> "ErrTokenBlacklisted", claims |-> NoToken]
        ELSE [err |-> "nil", claims |-> tokenString]

\* Mutant of ValidateToken: a failed blacklist lookup counts as "not found".
ValidateTokenFailOpen(tks, tokenString, at, f) ==
    LET parsed == ParseWithClaims(tokenString, TRUE, at)
    IN  IF "lookup" \notin f /\ FindToken(tks, tokenString) # {}
        THEN [err |-> "ErrTokenBlacklisted", claims |-> NoToken]
        ELSE IF parsed = "token is expired"
        THEN [err |-> "ErrTokenExpired", claims |-> NoToken]
        ELSE IF parsed # "nil"
        THEN [err |-> "ErrInvalidToken", claims |-> NoToken]
        ELSE [err |-> "nil", claims |-> tokenString]

ValidateToken(tks, tokenString, at, f) ==
    LET parsed == ParseWithClaims(tokenString, TRUE, at)
    IN  IF "lookup" \in f
        THEN [err |-> "error checking token blacklist", claims |-> NoToken]
        ELSE IF FindToken(tks, tokenString) # {}
        THEN [err |-> "ErrTokenBlacklisted", claims |-> NoToken]
        ELSE IF parsed = "token is expired"
        THEN [err |-> "ErrTokenExpired", claims |-> NoToken]
        ELSE IF parsed # "nil"
        THEN [err |-> "ErrInvalidToken", claims |-> NoToken]
        ELSE [err |-> "nil", claims |-> tokenString]

ObjectIDFromHex(userID) == userID \in HexIDs

\* Mutant of InvalidateToken: the record's expiry is the time of the logout.
InvalidateTokenExpiresAtCreation(tks, tokenString, userID, at, f) ==
    IF ~ObjectIDFromHex(userID)
    THEN [err |-> "invalid user ID", tokens |-> tks]
    ELSE IF "insert" \in f \/ FindToken(tks, tokenString) # {}
    THEN [err |-> "failed to invalidate token", tokens |-> tks]
    ELSE [err |-> "nil",
          tokens |-> tks \cup {[token |-> tokenString, user_id |-> userID,
                                expires_at |-> at, created_at |-> at]}]

\* Mutant of InvalidateToken: the document is inserted before the user id is
\* resolved.
InvalidateTokenInsertFirst(tks, tokenString, userID, at, f) ==
    LET parsed == ParseWithClaims(tokenString, FALSE, at)
        expiryTime == IF parsed = "nil" THEN tokenString.exp ELSE at + TokenTTL
        invalidatedToken == [token |-> tokenString, user_id |-> userID,
                             expires_at |-> expiryTime, created_at |-> at]
    IN  IF "insert" \in f \/ FindToken(tks, tokenString) # {}
        THEN [err |-> "failed to invalidate token", tokens |-> tks]
        ELSE IF ~ObjectIDFromHex(userID)
        THEN [err |-> "invalid user ID", tokens |-> tks \cup {invalidatedToken}]
        ELSE [err |-> "nil", tokens |-> tks \cup {invalidatedToken}]

\* Mutant of InvalidateToken: a token that does not parse is refused.
InvalidateTokenRefusesUnparsed(tks, tokenString, userID, at, f) ==
    LET parsed == ParseWithClaims(tokenString, FALSE, at)
        invalidatedToken == [token |-> tokenString, user_id |-> userID,
                             expires_at |-> tokenString.exp, created_at |-> at]
    IN  IF parsed # "nil"
        THEN [err |-> "failed to parse token", tokens |-> tks]
        ELSE IF ~ObjectIDFromHex(userID)
        THEN [err |-> "invalid user ID", tokens |-> tks]
        ELSE IF "insert" \in f \/ FindToken(tks, tokenString) # {}
        THEN [err |-> "failed to invalidate token", tokens |-> tks]
        ELSE [err |-> "nil", tokens |-> tks \cup {invalidatedToken}]

\* Mutant of InvalidateToken: the record of a parsed token expires at the
\* token's iat.
InvalidateTokenExpiresAtIssue(tks, tokenString, userID, at, f) ==
    LET parsed == ParseWithClaims(tokenString, FALSE, at)
        expiryTime == IF parsed = "nil" THEN tokenString.iat ELSE at + TokenTTL
        invalidatedToken == [token |-> tokenString, user_id |-> userID,
                             expires_at |-> expiryTime, created_at |-> at]
    IN  IF ~ObjectIDFromHex(userID)
        THEN [err |-> "invalid user ID", tokens |-> tks]
        ELSE IF "insert" \in f \/ FindToken(tks, tokenString) # {}
        THEN [err |-> "failed to invalidate token", tokens |-> tks]
        ELSE [err |-> "nil", tokens |-> tks \cup {invalidatedToken}]

InvalidateToken(tks, tokenString, userID, at, f) ==
    LET parsed == ParseWithClaims(tokenString, FALSE, at)
        expiryTime == IF parsed = "nil" THEN tokenString.exp ELSE at + TokenTTL
        invalidatedToken == [token |-> tokenString, user_id |-> userID,
                             expires_at |-> expiryTime, created_at |-> at]
    IN  IF ~ObjectIDFromHex(userID)
        THEN [err |-> "invalid user ID", tokens |-> tks]
        ELSE IF "insert" \in f \/ FindToken(tks, tokenString) # {}
        THEN [err |-> "failed to invalidate token", tokens |-> tks]
        ELSE [err |-> "nil", tokens |-> tks \cup {invalidatedToken}]

ExtractUserIDFromToken(tks, tokenString, at, f) ==
    LET v == ValidateToken(tks, tokenString, at, f)
    IN  IF v.err # "nil" THEN [err |-> v.err, userID |-> ""]
        ELSE [err |-> "nil", userID |-> v.claims.user_id]

(***************************************************************************)
(* RateLimiter over the login_attempts collection (a bag of documents).    *)
(***************************************************************************)
\* Mutant of CountFailed: the filter leaves out the success flag.
CountFailedAnyOutcome(att, email, ipAddress, since) ==
    LET hit == {d \in DOMAIN att : /\ d.email = email
                                   /\ d.ip_address = ipAddress
                                   /\ d.timestamp >= since}
    IN  BagCardinality([d \in hit |-> att[d]])

CountFailed(att, email, ipAddress, since) ==
    LET hit == {d \in DOMAIN att : /\ d.email = email
                                   /\ d.ip_address = ipAddress
                                   /\ d.success = FALSE
                                   /\ d.timestamp >= since}
    IN  BagCardinality([d \in hit |-> att[d]])

\* Mutant of CheckRateLimit: the limit is compared with <=.
CheckRateLimitOffByOne(att, email, ipAddress, at, f) ==
    IF "count" \in f
    THEN [allowed |-> FALSE, err |-> "failed to check rate limit"]
    ELSE [allowed |-> CountFailed(att, email, ipAddress, at - RateWindow) <= RateLimit,
          err |-> "nil"]

\* Mutant of CheckRateLimit: the window is the retention of the collection.
CheckRateLimitLongWindow(att, email, ipAddress, at, f) ==
    IF "count" \in f
    THEN [allowed |-> FALSE, err |-> "failed to check rate limit"]
    ELSE [allowed |-> CountFailed(att, email, ipAddress, at - AttemptRetention) < RateLimit,
          err |-> "nil"]

CheckRateLimit(att, email, ipAddress, at, f) ==
    LET oneMinuteAgo == at - RateWindow
    IN  IF "count" \in f
        THEN [allowed |-> FALSE, err |-> "failed to check rate limit"]
        ELSE [allowed |-> CountFailed(att, email, ipAddress, oneMinuteAgo) < RateLimit,
              err |-> "nil"]

\* Mutant of RecordLoginAttempt: only failures are written.
RecordLoginAttemptFailuresOnly(att, email, ipAddress, success, at, f) ==
    LET attempt == [email |-> email, ip_address |-> ipAddress,
                    timestamp |-> at, success |-> success]
    IN  IF "record" \in f \/ success THEN att ELSE att (+) SetToBag({attempt})

RecordLoginAttempt(att, email, ipAddress, success, at, f) ==
    LET attempt == [email |-> email, ip_address |-> ipAddress,
                    timestamp |-> at, success |-> success]
    IN  IF "record" \in f THEN att ELSE att (+) SetToBag({attempt})

(***************************************************************************)
(* The users collection: documents with a unique email.                    *)
(***************************************************************************)
FindUserByEmail(us, email) == {u \in us : u.email = email}

FindActiveByEmail(us, email) == {u \in us : u.email = email /\ u.is_deleted = FALSE}

NewObjectID(us) == IF Cardinality(us) = 0 THEN "id1" ELSE "id2"

(***************************************************************************)
(* AuthService.Login as a function of the stores, the clock, the request   *)
(* and the failing store operations: the status, the token and the         *)
(* login_attempts collection it leaves.                                    *)
(***************************************************************************)
LoginReply(code, msg, token, userID, att) ==
    [code |-> code, msg |-> msg, token |-> token, user_id |-> userID, attempts |-> att]

\* Mutant of LoginThrottled: the rejected attempt is recorded as a failure.
LoginThrottledRecorded(att, email, clientIP, at, f) ==
    LoginReply("ResourceExhausted", "too many login attempts, please try again later",
               NoToken, "", RecordLoginAttempt(att, email, clientIP, FALSE, at, f))

\* The reply of a request the limiter turns away.
LoginThrottled(att, email, clientIP, at, f) ==
    LoginReply("ResourceExhausted", "too many login attempts, please try again later",
               NoToken, "", att)

\* Mutant of LoginResult: a failed write of the attempt fails the call.
LoginResultRecordChecked(us, att, at, req, md, f) ==
    LET clientIP == getClientIP(md)
        rl == CheckRateLimit(att, req.email, clientIP, at, f)
        found == FindActiveByEmail(us, req.email)
        user == CHOOSE u \in found : TRUE
        failed == RecordLoginAttempt(att, req.email, clientIP, FALSE, at, f)
        succeeded == RecordLoginAttempt(att, req.email, clientIP, TRUE, at, f)
        unrecorded == LoginReply("Internal", "failed to record login attempt", NoToken, "", att)
    IN  IF ValidateEmail(req.email) # "nil"
        THEN LoginReply("InvalidArgument", ValidateEmail(req.email), NoToken, "", att)
        ELSE IF req.password = ""
        THEN LoginReply("InvalidArgument", "password is required", NoToken, "", att)
        ELSE IF rl.err # "nil"
        THEN LoginReply("Internal", "failed to check rate limit", NoToken, "", att)
        ELSE IF ~rl.allowed
        THEN LoginThrottled(att, req.email, clientIP, at, f)
        ELSE IF "find" \in f
        THEN LoginReply("Internal", "failed to find user", NoToken, "", failed)
        ELSE IF found = {}
        THEN IF "record" \in f THEN unrecorded
             ELSE LoginReply("NotFound", "invalid email or password", NoToken, "", failed)
        ELSE IF ~CheckPasswordHash(req.password, user.password)
        THEN IF "record" \in f THEN unrecorded
             ELSE LoginReply("Unauthenticated", "invalid email or password", NoToken, "", failed)
        ELSE IF ~user.is_active
        THEN LoginReply("PermissionDenied", "account is deactivated/deleted", NoToken, "", att)
        ELSE IF "record" \in f THEN unrecorded
        ELSE LoginReply("OK", "Login success", GenerateToken(user.id, user.email, at),
                        user.id, succeeded)

\* Mutant of LoginResult: the active flag is checked before the password.
LoginResultActiveFirst(us, att, at, req, md, f) ==
    LET clientIP == getClientIP(md)
        rl == CheckRateLimit(att, req.email, clientIP, at, f)
        found == FindActiveByEmail(us, req.email)
        user == CHOOSE u \in found : TRUE
        failed == RecordLoginAttempt(att, req.email, clientIP, FALSE, at, f)
        succeeded == RecordLoginAttempt(att, req.email, clientIP, TRUE, at, f)
    IN  IF ValidateEmail(req.email) # "nil"
        THEN LoginReply("InvalidArgument", ValidateEmail(req.email), NoToken, "", att)
        ELSE IF req.password = ""
        THEN LoginReply("InvalidArgument", "password is required", NoToken, "", att)
        ELSE IF rl.err # "nil"
        THEN LoginReply("Internal", "failed to check rate limit", NoToken, "", att)
        ELSE IF ~rl.allowed
        THEN LoginThrottled(att, req.email, clientIP, at, f)
        ELSE IF "find" \in f
        THEN LoginReply("Internal", "failed to find user", NoToken, "", failed)
        ELSE IF found = {}
        THEN LoginReply("NotFound", "invalid email or password", NoToken, "", failed)
        ELSE IF ~user.is_active
        THEN LoginReply("PermissionDenied", "account is deactivated/deleted", NoToken, "", att)
        ELSE IF ~CheckPasswordHash(req.password, user.password)
        THEN LoginReply("Unauthenticated", "invalid email or password", NoToken, "", failed)
        ELSE LoginReply("OK", "Login success", GenerateToken(user.id, user.email, at),
                        user.id, succeeded)

LoginResult(us, att, at, req, md, f) ==
    LET clientIP == getClientIP(md)
        rl == CheckRateLimit(att, req.email, clientIP, at, f)
        found == FindActiveByEmail(us, req.email)
        user == CHOOSE u \in found : TRUE
        failed == RecordLoginAttempt(att, req.email, clientIP, FALSE, at, f)
        succeeded == RecordLoginAttempt(att, req.email, clientIP, TRUE, at, f)
    IN  IF ValidateEmail(req.email) # "nil"
        THEN LoginReply("InvalidArgument", ValidateEmail(req.email), NoToken, "", att)
        ELSE IF req.password = ""
        THEN LoginReply("InvalidArgument", "password is required", NoToken, "", att)
        ELSE IF rl.err # "nil"
        THEN LoginReply("Internal", "failed to check rate limit", NoToken, "", att)
        ELSE IF ~rl.allowed
        THEN LoginThrottled(att, req.email, clientIP, at, f)
        ELSE IF "find" \in f
        THEN LoginReply("Internal", "failed to find user", NoToken, "", failed)
        ELSE IF found = {}
        THEN LoginReply("NotFound", "invalid email or password", NoToken, "", failed)
        ELSE IF ~CheckPasswordHash(req.password, user.password)
        THEN LoginReply("Unauthenticated", "invalid email or password", NoToken, "", failed)
        ELSE IF ~user.is_active
        THEN LoginReply("PermissionDenied", "account is deactivated/deleted", NoToken, "", att)
        ELSE LoginReply("OK", "Login success", GenerateToken(user.id, user.email, at),
                        user.id, succeeded)

\* Mutant of LogoutResult: the token is invalidated without being validated.
LogoutResultNoValidation(tks, at, req, f) ==
    LET inv == InvalidateToken(tks, req.token, "id1", at, f)
    IN  IF req.token = EmptyToken
        THEN [code |-> "InvalidArgument", msg |-> "token is required", tokens |-> tks]
        ELSE IF inv.err # "nil"
        THEN [code |-> "Internal", msg |-> "failed to invalidate token", tokens |-> tks]
        ELSE [code |-> "OK", msg |-> "Logout successful", tokens |-> inv.tokens]

LogoutResult(tks, at, req, f) ==
    LET ex == ExtractUserIDFromToken(tks, req.token, at, f)
        inv == InvalidateToken(tks, req.token, ex.userID, at, f)
    IN  IF req.token = EmptyToken
        THEN [code |-> "InvalidArgument", msg |-> "token is required", tokens |-> tks]
        ELSE IF ex.err # "nil"
        THEN [code |-> "Unauthenticated", msg |-> "invalid token", tokens |-> tks]
        ELSE IF inv.err # "nil"
        THEN [code |-> "Internal", msg |-> "failed to invalidate token", tokens |-> tks]
        ELSE [code |-> "OK", msg |-> "Logout successful", tokens |-> inv.tokens]

RegisterReply(code, msg, userID, us) ==
    [code |-> code, msg |-> msg, user_id |-> userID, users |-> us]

RegisterResult(us, req, salt, f) ==
    LET email == SanitizeString(req.email)
        name == SanitizeString(req.name)
        user == [id |-> NewObjectID(us), email |-> email,
                 password |-> HashPassword(req.password, salt), name |-> name,
                 is_active |-> TRUE, is_deleted |-> FALSE]
    IN  IF ValidateEmail(email) # "nil"
        THEN RegisterReply("InvalidArgument", ValidateEmail(email), "", us)
        ELSE IF ValidatePassword(req.password) # "nil"
        THEN RegisterReply("InvalidArgument", ValidatePassword(req.password), "", us)
        ELSE IF ValidateName(name) # "nil"
        THEN RegisterReply("InvalidArgument", ValidateName(name), "", us)
        ELSE IF "find" \in f
        THEN RegisterReply("Internal", "failed to check existing user", "", us)
        ELSE IF FindUserByEmail(us, email) # {}
        THEN RegisterReply("AlreadyExists", "email already exists", "", us)
        ELSE IF "hash" \in f
        THEN RegisterReply("Internal", "failed to hash password", "", us)
        ELSE IF "insert" \in f
        THEN RegisterReply("Internal", "failed to create user", "", us)
        ELSE RegisterReply("OK", "Registration successful", user.id, us \cup {user})

DeleteProfileResult(us, req, f) ==
    LET hit == {u \in us : u.id = req.user_id /\ u.is_deleted = FALSE}
        deleted(u) == [u EXCEPT !.is_deleted = TRUE, !.is_active = FALSE]
    IN  IF req.user_id = ""
        THEN [code |-> "InvalidArgument", msg |-> "user ID is required", users |-> us]
        ELSE IF ~ObjectIDFromHex(req.user_id)
        THEN [code |-> "InvalidArgument", msg |-> "invalid user ID format", users |-> us]
        ELSE IF "update" \in f
        THEN [code |-> "Internal", msg |-> "failed to delete user", users |-> us]
        ELSE IF hit = {}
        THEN [code |-> "NotFound", msg |-> "user not found", users |-> us]
        ELSE [code |-> "OK", msg |-> "Profile deleted successfully",
              users |-> (us \ hit) \cup {deleted(u) : u \in hit}]

\* UserService.UpdateProfile: the name and the email of an undeleted user are
\* set, the email only when no other user document has it.
UpdateProfileResult(us, req, f) ==
    LET name == SanitizeString(req.name)
        email == SanitizeString(req.email)
        taken == {u \in us : u.email = email /\ u.id # req.user_id}
        hit == {u \in us : u.id = req.user_id /\ u.is_deleted = FALSE}
        updated(u) == [u EXCEPT !.name = IF name # "" THEN name ELSE @,
                                !.email = IF email # "" THEN email ELSE @]
        written == (us \ hit) \cup {updated(u) : u \in hit}
    IN  IF req.user_id = ""
        THEN [code |-> "InvalidArgument", msg |-> "user ID is required", users |-> us]
        ELSE IF ~ObjectIDFromHex(req.user_id)
        THEN [code |-> "InvalidArgument", msg |-> "invalid user ID format", users |-> us]
        ELSE IF name # "" /\ ValidateName(name) # "nil"
        THEN [code |-> "InvalidArgument", msg |-> ValidateName(name), users |-> us]
        ELSE IF email # "" /\ ValidateEmail(email) # "nil"
        THEN [code |-> "InvalidArgument", msg |-> ValidateEmail(email), users |-> us]
        ELSE IF email # "" /\ "find" \in f
        THEN [code |-> "Internal", msg |-> "failed to check email uniqueness", users |-> us]
        ELSE IF email # "" /\ taken # {}
        THEN [code |-> "AlreadyExists", msg |-> "email is already taken", users |-> us]
        ELSE IF "update" \in f
        THEN [code |-> "Internal", msg |-> "failed to update user", users |-> us]
        ELSE IF hit = {}
        THEN [code |-> "NotFound", msg |-> "user not found", users |-> us]
        ELSE IF "retrieve" \in f
        THEN [code |-> "Internal", msg |-> "failed to retrieve updated user", users |-> written]
        ELSE [code |-> "OK", msg |-> "Profile updated successfully", users |-> written]

(***************************************************************************)
(* State: the clock, the three collections, the tokens handed to clients,  *)
(* the tokens whose Logout was answered OK, and the last reply.            *)
(***************************************************************************)
NoResp ==
    [op |-> "none", code |-> "none", email |-> "", password |-> "", ip |-> "",
     token |-> NoToken, user_id |-> ""]

\* The handlers running at the same time, each at a position between two of
\* its store operations, with the locals it carries across them.
Procs == {"p1", "p2"}

Idle ==
    [op |-> "none", pc |-> "idle", code |-> "none", email |-> "", password |-> "",
     ip |-> "", seen |-> 0, success |-> FALSE, token |-> NoToken, overlap |-> 0]

Init ==
    /\ now = 0
    /\ users = {}
    /\ tokens = {}
    /\ attempts = EmptyBag
    /\ issued = {}
    /\ loggedOut = {}
    /\ resp = NoResp
    /\ calls = [p \in Procs |-> Idle]

\* What a client can send as a token: one it was given, one it altered, or
\* something that is no token.
TokenInputs == issued \cup {Tamper(t) : t \in issued} \cup {GarbageToken, EmptyToken}

Login(req, md, f) ==
    LET r == LoginResult(users, attempts, now, req, md, f)
    IN  /\ resp = NoResp
        /\ attempts' = r.attempts
        /\ issued' = IF r.code = "OK" THEN issued \cup {r.token} ELSE issued
        /\ resp' = [op |-> "Login", code |-> r.code, email |-> req.email,
                    password |-> req.password, ip |-> getClientIP(md),
                    token |-> r.token, user_id |-> r.user_id]
        /\ UNCHANGED <<now, users, tokens, loggedOut, calls>>

Logout(req, f) ==
    LET r == LogoutResult(tokens, now, req, f)
    IN  /\ resp = NoResp
        /\ tokens' = r.tokens
        /\ loggedOut' = IF r.code = "OK" THEN loggedOut \cup {req.token} ELSE loggedOut
        /\ resp' = [NoResp EXCEPT !.op = "Logout", !.code = r.code, !.token = req.token]
        /\ UNCHANGED <<now, users, attempts, issued, calls>>

Register(req, salt, f) ==
    LET r == RegisterResult(users, req, salt, f)
    IN  /\ resp = NoResp
        /\ users' = r.users
        /\ resp' = [NoResp EXCEPT !.op = "Register", !.code = r.code, !.email = req.email,
                                  !.password = req.password, !.user_id = r.user_id]
        /\ UNCHANGED <<now, tokens, attempts, issued, loggedOut, calls>>

Validate(tokenString, f) ==
    LET r == ValidateToken(tokens, tokenString, now, f)
    IN  /\ resp = NoResp
        /\ resp' = [NoResp EXCEPT !.op = "Validate", !.code = r.err, !.token = tokenString,
                                  !.user_id = IF r.err = "nil" THEN r.claims.sub ELSE ""]
        /\ UNCHANGED <<now, users, tokens, attempts, issued, loggedOut, calls>>

UpdateProfile(req, f) ==
    LET r == UpdateProfileResult(users, req, f)
    IN  /\ resp = NoResp
        /\ users' = r.users
        /\ resp' = [NoResp EXCEPT !.op = "UpdateProfile", !.code = r.code,
                                  !.email = req.email, !.user_id = req.user_id]
        /\ UNCHANGED <<now, tokens, attempts, issued, loggedOut, calls>>

\* Mutant of DeleteProfile: the tokens of the deleted user are blacklisted.
DeleteProfileRevoking(req, f) ==
    LET r == DeleteProfileResult(users, req, f)
        mine == {t \in issued : r.code = "OK" /\ t.user_id = req.user_id}
    IN  /\ resp = NoResp
        /\ users' = r.users
        /\ tokens' = tokens \cup {[token |-> t, user_id |-> req.user_id,
                                    expires_at |-> t.exp, created_at |-> now] : t \in mine}
        /\ resp' = [NoResp EXCEPT !.op = "DeleteProfile", !.code = r.code]
        /\ UNCHANGED <<now, attempts, issued, loggedOut, calls>>

DeleteProfile(req, f) ==
    LET r == DeleteProfileResult(users, req, f)
    IN  /\ resp = NoResp
        /\ users' = r.users
        /\ resp' = [NoResp EXCEPT !.op = "DeleteProfile", !.code = r.code]
        /\ UNCHANGED <<now, tokens, attempts, issued, loggedOut, calls>>

\* The clock advances.
Tick ==
    /\ resp = NoResp
    /\ now' = now + 1
    /\ UNCHANGED <<users, tokens, attempts, issued, loggedOut, resp, calls>>

\* Mutant of PurgeTokens: the TTL index is on created_at.
PurgeTokensByCreatedAt ==
    /\ resp = NoResp
    /\ \E d \in tokens : d.created_at + RevocationExpireAfter <= now
    /\ tokens' = {d \in tokens : ~(d.created_at + RevocationExpireAfter <= now)}
    /\ UNCHANGED <<now, users, attempts, issued, loggedOut, resp, calls>>

\* The store's TTL monitor on invalidated_tokens.expires_at.
PurgeTokens ==
    /\ resp = NoResp
    /\ \E d \in tokens : d.expires_at + RevocationExpireAfter <= now
    /\ tokens' = {d \in tokens : ~(d.expires_at + RevocationExpireAfter <= now)}
    /\ UNCHANGED <<now, users, attempts, issued, loggedOut, resp, calls>>

\* The store's TTL monitor on login_attempts.timestamp.
PurgeAttempts ==
    LET keep == {d \in DOMAIN attempts : ~(d.timestamp + AttemptRetention <= now)}
    IN  /\ resp = NoResp
        /\ keep # DOMAIN attempts
        /\ attempts' = [d \in keep |-> attempts[d]]
        /\ UNCHANGED <<now, users, tokens, issued, loggedOut, resp, calls>>

\* The client takes the reply; the next request, tick or purge follows it.
Return ==
    /\ resp # NoResp
    /\ resp' = NoResp
    /\ UNCHANGED <<now, users, tokens, attempts, issued, loggedOut, calls>>

Bounded(maxTime, maxAttempts) ==
    /\ now <= maxTime
    /\ BagCardinality(attempts) <= maxAttempts

\* The failing store operations of one request: none of them, or one.
Faults(ops) == {{}} \cup {{o} : o \in ops}

LoginFaults == Faults({"count", "find", "record"}) \cup {{"find", "record"}}

Next ==
    \/ \E e \in {"a@x.com", "not-an-email"}, p \in Passwords, md \in {NoMD}, f \in LoginFaults :
          Login([email |-> e, password |-> p], md, f) /\ Bounded(MaxTime, MaxAttempts)'
    \/ \E t \in TokenInputs, f \in Faults({"lookup", "insert"}) :
          Logout([token |-> t], f)
    \/ \E e \in {"a@x.com", " a@x.com ", "not-an-email"}, p \in {"Str0ng!Pass", "weak"}, n \in Names,
          s \in Salts, f \in Faults({"find", "hash", "insert"}) :
          Register([email |-> e, password |-> p, name |-> n], s, f)
    \/ \E t \in TokenInputs, f \in Faults({"lookup"}) :
          Validate(t, f)
    \/ \E id \in UserIDs, f \in Faults({"update"}) :
          DeleteProfile([user_id |-> id], f)
    \/ Tick /\ Bounded(MaxTime, MaxAttempts)'
    \/ PurgeTokens
    \/ PurgeAttempts
    \/ Return

Spec == Init /\ [][Next]_vars

(***************************************************************************)
(* The login path alone: Login, Register, DeleteProfile, the clock and the *)
(* purge of login_attempts, with enough attempts for the limiter to act.   *)
(***************************************************************************)
NextRL ==
    \/ \E e \in {"a@x.com", "b@x.com", ""}, p \in Passwords, f \in Faults({"count", "find"}) :
          Login([email |-> e, password |-> p], NoMD, f) /\ Bounded(RLMaxTime, RLMaxAttempts)'
    \/ \E e \in {"a@x.com", " a@x.com "}, f \in Faults({"find", "hash", "insert"}) :
          Register([email |-> e, password |-> "Str0ng!Pass", name |-> " A "], "s1", f)
    \/ \E f \in Faults({"update"}) :
          DeleteProfile([user_id |-> "id1"], f)
    \/ Tick /\ Bounded(RLMaxTime, RLMaxAttempts)'
    \/ PurgeAttempts
    \/ Return

SpecRL == Init /\ [][NextRL]_vars

(***************************************************************************)
(* The token service alone, called directly: GenerateToken of services     *)
(* constructed with a zero and with the configured tokenTTL, ValidateToken,*)
(* InvalidateToken with any token string and user id, the clock and the    *)
(* purge of invalidated_tokens.                                            *)
(***************************************************************************)
Issue(userID, email, tokenTTL) ==
    LET t == GenerateTokenTTL(userID, email, now, tokenTTL)
    IN  /\ resp = NoResp
        /\ issued' = issued \cup {t}
        /\ resp' = [NoResp EXCEPT !.op = "Issue", !.code = "nil", !.token = t,
                                  !.user_id = userID]
        /\ UNCHANGED <<now, users, tokens, attempts, loggedOut, calls>>

Invalidate(tokenString, userID, f) ==
    LET r == InvalidateToken(tokens, tokenString, userID, now, f)
    IN  /\ resp = NoResp
        /\ tokens' = r.tokens
        /\ resp' = [NoResp EXCEPT !.op = "Invalidate", !.code = r.err,
                                  !.token = tokenString, !.user_id = userID]
        /\ UNCHANGED <<now, users, attempts, issued, loggedOut, calls>>

NextJWT ==
    \/ \E ttl \in {0, TokenTTL} :
          Issue("id1", "a@x.com", ttl)
    \/ \E t \in TokenInputs, f \in Faults({"lookup"}) :
          Validate(t, f)
    \/ \E t \in TokenInputs, id \in UserIDs, f \in Faults({"insert"}) :
          Invalidate(t, id, f) /\ Cardinality(tokens') <= JWTMaxRecords
    \/ Tick /\ now' <= JWTMaxTime
    \/ PurgeTokens
    \/ Return

SpecJWT == Init /\ [][NextJWT]_vars

(***************************************************************************)
(* The two services together, one request at a time: AuthService and the   *)
(* UserService operations that write the users collection, the clock and   *)
(* the purges.                                                             *)
(***************************************************************************)
NextUS ==
    \/ \E e \in {"a@x.com", "b@x.com"} :
          Login([email |-> e, password |-> "Str0ng!Pass"], NoMD, {})
              /\ Bounded(USMaxTime, USMaxAttempts)'
    \/ \E t \in TokenInputs :
          Logout([token |-> t], {})
    \/ Register([email |-> "a@x.com", password |-> "Str0ng!Pass", name |-> " A "], "s1", {})
    \/ \E t \in TokenInputs :
          Validate(t, {})
    \/ \E e \in {"", "b@x.com", "not-an-email"}, f \in Faults({"retrieve"}) :
          UpdateProfile([user_id |-> "id1", name |-> " A ", email |-> e], f)
    \/ DeleteProfile([user_id |-> "id1"], {})
    \/ Tick /\ Bounded(USMaxTime, USMaxAttempts)'
    \/ PurgeTokens
    \/ PurgeAttempts
    \/ Return

SpecUS == Init /\ [][NextUS]_vars

(***************************************************************************)
(* Login and Register running concurrently: a step is one store operation  *)
(* of one call together with the handler code up to the next one, and      *)
(* steps of different calls interleave.  No store operation fails here.    *)
(***************************************************************************)
Finish(p, code) == [calls EXCEPT ![p].pc = "done", ![p].code = code]

\* The Login calls between their count query and their insert.
InFlight(cs) == {q \in Procs : cs[q].op = "Login" /\ cs[q].pc \in {"find", "record"}}

\* History kept with each call in flight: the largest number of Login calls
\* that were in flight together with it.
Overlap(cs) ==
    [q \in Procs |->
        IF q \in InFlight(cs) /\ cs[q].overlap < Cardinality(InFlight(cs))
        THEN [cs[q] EXCEPT !.overlap = Cardinality(InFlight(cs))]
        ELSE cs[q]]

\* Mutant of LoginCheck: the limiter's answer is not looked at.
LoginCheckUnlimited(p, req, md) ==
    LET clientIP == getClientIP(md)
        call == [Idle EXCEPT !.op = "Login", !.email = req.email,
                             !.password = req.password, !.ip = clientIP,
                             !.seen = CountFailed(attempts, req.email, clientIP, now - RateWindow)]
    IN  /\ calls[p].pc = "idle"
        /\ calls' = Overlap([calls EXCEPT ![p] = [call EXCEPT !.pc = "find"]])
        /\ UNCHANGED <<now, users, tokens, attempts, issued, loggedOut, resp>>

\* Login up to and including the count query of CheckRateLimit.
LoginCheck(p, req, md) ==
    LET clientIP == getClientIP(md)
        rl == CheckRateLimit(attempts, req.email, clientIP, now, {})
        call == [Idle EXCEPT !.op = "Login", !.email = req.email,
                             !.password = req.password, !.ip = clientIP,
                             !.seen = CountFailed(attempts, req.email, clientIP, now - RateWindow)]
    IN  /\ calls[p].pc = "idle"
        /\ calls' = Overlap([calls EXCEPT ![p] =
                        IF ValidateEmail(req.email) # "nil" \/ req.password = ""
                        THEN [call EXCEPT !.pc = "done", !.code = "InvalidArgument"]
                        ELSE IF ~rl.allowed
                        THEN [call EXCEPT !.pc = "done", !.code = "ResourceExhausted"]
                        ELSE [call EXCEPT !.pc = "find"]])
        /\ UNCHANGED <<now, users, tokens, attempts, issued, loggedOut, resp>>

\* Login from the user lookup to the point where the attempt is recorded.
LoginFind(p) ==
    LET c == calls[p]
        found == FindActiveByEmail(users, c.email)
        user == CHOOSE u \in found : TRUE
        record(code, success, token) ==
            [calls EXCEPT ![p].pc = "record", ![p].code = code,
                          ![p].success = success, ![p].token = token]
    IN  /\ c.op = "Login" /\ c.pc = "find"
        /\ calls' = IF found = {} THEN record("NotFound", FALSE, NoToken)
                     ELSE IF ~CheckPasswordHash(c.password, user.password)
                     THEN record("Unauthenticated", FALSE, NoToken)
                     ELSE IF ~user.is_active THEN Finish(p, "PermissionDenied")
                     ELSE record("OK", TRUE, GenerateToken(user.id, user.email, now))
        /\ UNCHANGED <<now, users, tokens, attempts, issued, loggedOut, resp>>

\* Mutant of LoginRecord: a failed attempt is written twice.
LoginRecordTwice(p) ==
    LET c == calls[p]
        once == RecordLoginAttempt(attempts, c.email, c.ip, c.success, now, {})
    IN  /\ c.op = "Login" /\ c.pc = "record"
        /\ attempts' = IF c.success THEN once
                        ELSE RecordLoginAttempt(once, c.email, c.ip, c.success, now, {})
        /\ issued' = IF c.code = "OK" THEN issued \cup {c.token} ELSE issued
        /\ calls' = Finish(p, c.code)
        /\ UNCHANGED <<now, users, tokens, loggedOut, resp>>

\* The insert of RecordLoginAttempt and the reply.
LoginRecord(p) ==
    LET c == calls[p]
    IN  /\ c.op = "Login" /\ c.pc = "record"
        /\ attempts' = RecordLoginAttempt(attempts, c.email, c.ip, c.success, now, {})
        /\ issued' = IF c.code = "OK" THEN issued \cup {c.token} ELSE issued
        /\ calls' = Finish(p, c.code)
        /\ UNCHANGED <<now, users, tokens, loggedOut, resp>>

\* Register up to and including the lookup of an existing user.
RegisterFind(p, req) ==
    LET email == SanitizeString(req.email)
        name == SanitizeString(req.name)
        call == [Idle EXCEPT !.op = "Register", !.email = email, !.password = req.password]
    IN  /\ calls[p].pc = "idle"
        /\ calls' = [calls EXCEPT ![p] =
                        IF \/ ValidateEmail(email) # "nil"
                           \/ ValidatePassword(req.password) # "nil"
                           \/ ValidateName(name) # "nil"
                        THEN [call EXCEPT !.pc = "done", !.code = "InvalidArgument"]
                        ELSE IF FindUserByEmail(users, email) # {}
                        THEN [call EXCEPT !.pc = "done", !.code = "AlreadyExists"]
                        ELSE [call EXCEPT !.pc = "insert"]]
        /\ UNCHANGED <<now, users, tokens, attempts, issued, loggedOut, resp>>

\* The insert of the user, refused by the unique index on email when a
\* document with the email is stored by now, and the reply.
RegisterInsert(p, salt) ==
    LET c == calls[p]
        user == [id |-> NewObjectID(users), email |-> c.email,
                 password |-> HashPassword(c.password, salt), name |-> "A",
                 is_active |-> TRUE, is_deleted |-> FALSE]
    IN  /\ c.op = "Register" /\ c.pc = "insert"
        /\ IF FindUserByEmail(users, c.email) # {}
           THEN /\ calls' = Finish(p, "Internal")
                /\ users' = users
           ELSE /\ calls' = Finish(p, "OK")
                /\ users' = users \cup {user}
        /\ UNCHANGED <<now, tokens, attempts, issued, loggedOut, resp>>

\* The reply of a finished call is taken; the process serves the next call.
CallReturn(p) ==
    /\ calls[p].pc = "done"
    /\ calls' = [calls EXCEPT ![p] = Idle]
    /\ UNCHANGED <<now, users, tokens, attempts, issued, loggedOut, resp>>

NextCC ==
    \/ \E p \in Procs, pw \in {"Str0ng!Pass", "weak"} :
          LoginCheck(p, [email |-> "a@x.com", password |-> pw], NoMD)
    \/ \E p \in Procs : LoginFind(p)
    \/ \E p \in Procs : LoginRecord(p) /\ BagCardinality(attempts') <= CCMaxAttempts
    \/ \E p \in Procs :
          RegisterFind(p, [email |-> "a@x.com", password |-> "Str0ng!Pass", name |-> " A "])
    \/ \E p \in Procs : RegisterInsert(p, "s1")
    \/ \E p \in Procs : CallReturn(p)
    \/ Tick /\ now' <= CCMaxTime

SpecCC == Init /\ [][NextCC]_vars

(***************************************************************************)
(* Logout calls running concurrently on tokens the token service issued:   *)
(* a call reads invalidated_tokens in ExtractUserIDFromToken and inserts   *)
(* in InvalidateToken, and the steps of different calls, the clock and the *)
(* purge interleave.  No store operation fails here.                       *)
(***************************************************************************)
\* Logout up to and including the blacklist lookup and the parsing of
\* ExtractUserIDFromToken.
LogoutValidate(p, req) ==
    LET ex == ExtractUserIDFromToken(tokens, req.token, now, {})
        call == [Idle EXCEPT !.op = "Logout", !.token = req.token]
    IN  /\ calls[p].pc = "idle"
        /\ calls' = [calls EXCEPT ![p] =
                        IF req.token = EmptyToken
                        THEN [call EXCEPT !.pc = "done", !.code = "InvalidArgument"]
                        ELSE IF ex.err # "nil"
                        THEN [call EXCEPT !.pc = "done", !.code = "Unauthenticated"]
                        ELSE [call EXCEPT !.pc = "insert"]]
        /\ UNCHANGED <<now, users, tokens, attempts, issued, loggedOut, resp>>

\* Mutant of LogoutInsert: invalidated_tokens has no unique index on token.
LogoutInsertNoIndex(p) ==
    LET c == calls[p]
        inv == InvalidateToken({}, c.token, c.token.user_id, now, {})
    IN  /\ c.op = "Logout" /\ c.pc = "insert"
        /\ tokens' = tokens \cup inv.tokens
        /\ loggedOut' = loggedOut \cup {c.token}
        /\ calls' = Finish(p, "OK")
        /\ UNCHANGED <<now, users, attempts, issued, resp>>

\* InvalidateToken with the user id taken from the claims, its insert refused
\* by the unique index on token when a document of the string is stored by
\* now, and the reply.
LogoutInsert(p) ==
    LET c == calls[p]
        inv == InvalidateToken(tokens, c.token, c.token.user_id, now, {})
    IN  /\ c.op = "Logout" /\ c.pc = "insert"
        /\ tokens' = inv.tokens
        /\ loggedOut' = IF inv.err = "nil" THEN loggedOut \cup {c.token} ELSE loggedOut
        /\ calls' = Finish(p, IF inv.err = "nil" THEN "OK" ELSE "Internal")
        /\ UNCHANGED <<now, users, attempts, issued, resp>>

NextLO ==
    \/ Issue("id1", "a@x.com", TokenTTL)
    \/ Return
    \/ \E p \in Procs, t \in TokenInputs : LogoutValidate(p, [token |-> t])
    \/ \E p \in Procs : LogoutInsert(p)
    \/ \E p \in Procs : CallReturn(p)
    \/ Tick /\ now' <= LOMaxTime
    \/ PurgeTokens

SpecLO == Init /\ [][NextLO]_vars

(***************************************************************************)
(* Properties.                                                             *)
(***************************************************************************)

\* C1: a token whose Logout (Invalidate) was answered OK fails validation
\* with ErrTokenBlacklisted for as long as its signature and expiry would
\* otherwise pass, and no validation of it returns claims, whatever the
\* blacklist lookup does.
C1_RevokedTokenIsBlacklisted ==
    \A t \in loggedOut :
        ParseWithClaims(t, TRUE, now) = "nil" =>
            /\ ValidateToken(tokens, t, now, {}).err = "ErrTokenBlacklisted"
            /\ \A f \in Faults({"lookup"}) :
                  /\ ValidateToken(tokens, t, now, f).err # "nil"
                  /\ ValidateToken(tokens, t, now, f).claims = NoToken

\* Witness of C1: a logged-out token, still unexpired, was validated at a later
\* tick than its logout and refused as blacklisted.
C1_Witness ==
    /\ resp.op = "Validate"
    /\ resp.token \in loggedOut
    /\ resp.code = "ErrTokenBlacklisted"
    /\ ParseWithClaims(resp.token, TRUE, now) = "nil"
    /\ \E d \in tokens : d.token = resp.token /\ d.created_at < now

\* C2: a token that fails validation as expired or blacklisted does not validate
\* after any step (clock, purge of its revocation record, Login, Logout, Register,
\* DeleteProfile).
C2_NoWayBackToValid ==
    [][\A t \in TokenInputs :
          ValidateToken(tokens, t, now, {}).err \in {"ErrTokenExpired", "ErrTokenBlacklisted"}
              => ValidateToken(tokens', t, now', {}).err # "nil"]_vars

\* Witness of C2: a logged-out token whose revocation record has been purged
\* was validated and refused as expired.
C2_Witness ==
    /\ resp.op = "Validate"
    /\ resp.token \in loggedOut
    /\ FindToken(tokens, resp.token) = {}
    /\ resp.code = "ErrTokenExpired"

\* C3: for every identity and label and every issue time up to now, the token
\* GenerateToken gives validates with that identity as subject, as long as it is
\* unexpired and has no revocation record; and so does every token a Login has
\* returned, its subject being the id of the user it was returned for.
C3_IssueValidateRoundTrip ==
    /\ \A id \in UserIDs, label \in WellFormedEmails, t0 \in 0..now :
        LET t == GenerateToken(id, label, t0)
            v == ValidateToken(tokens, t, now, {})
        IN  (FindToken(tokens, t) = {} /\ now < t.exp) =>
                /\ v.err = "nil"
                /\ v.claims.sub = id
                /\ ExtractUserIDFromToken(tokens, t, now, {}) = [err |-> "nil", userID |-> id]
    /\ \A t \in issued :
        LET v == ValidateToken(tokens, t, now, {})
        IN  (FindToken(tokens, t) = {} /\ now < t.exp) =>
                /\ v.err = "nil"
                /\ \E u \in users : u.id = v.claims.sub /\ u.email = v.claims.email

\* Witness of C3: a token a Login returned was validated at a later tick and
\* gave the id of the registered user as subject.
C3_Witness ==
    /\ resp.op = "Validate"
    /\ resp.code = "nil"
    /\ resp.token \in issued
    /\ resp.token.iat < now
    /\ \E u \in users : u.id = resp.user_id /\ u.email = resp.token.email

\* C4 (as claimed): a Login answered OK after a Logout of a token of the same
\* user returns a token different from the logged-out one, which validates,
\* while the logged-out one does not.
C4_ReloginGivesFreshToken ==
    (resp.op = "Login" /\ resp.code = "OK") =>
        \A t1 \in loggedOut :
            t1.user_id = resp.user_id =>
                /\ resp.token # t1
                /\ ValidateToken(tokens, resp.token, now, {}).err = "nil"
                /\ ValidateToken(tokens, t1, now, {}).err # "nil"

(***************************************************************************)
(* The failed attempts of a pair on record with a timestamp from `since`   *)
(* on, counted document by document.                                       *)
(***************************************************************************)
FailedAttempt(e, ip, t) == [email |-> e, ip_address |-> ip, timestamp |-> t, success |-> FALSE]

RecordedFailures(e, ip, since) ==
    LET upTo[t \in (since - 1)..now] ==
            IF t < since THEN 0
            ELSE upTo[t - 1] + CopiesIn(FailedAttempt(e, ip, t), attempts)
    IN  upTo[now]

HasFailure(e, ip) == \E d \in DOMAIN attempts : d.email = e /\ d.ip_address = ip /\ ~d.success

LastFailure(e, ip) ==
    CHOOSE t \in 0..now :
        /\ CopiesIn(FailedAttempt(e, ip, t), attempts) > 0
        /\ \A t2 \in (t + 1)..now : CopiesIn(FailedAttempt(e, ip, t2), attempts) = 0

Identities == {"a@x.com", "b@x.com"}

Origins == {getClientIP(md) : md \in Metadata}

\* C5: with 5 failed attempts of a pair on record in the window, a Login of
\* that pair with a secret, right or wrong, is answered ResourceExhausted,
\* returns no token and records nothing.
C5_FiveFailuresThrottle ==
    \A e \in Identities, md \in Metadata :
        RecordedFailures(e, getClientIP(md), now - RateWindow) >= 5 =>
            \A p \in Passwords \ {""}, f \in Faults({"find", "record"}) :
                LET r == LoginResult(users, attempts, now, [email |-> e, password |-> p], md, f)
                IN  /\ r.code = "ResourceExhausted"
                    /\ r.token = NoToken
                    /\ r.attempts = attempts

\* Witness of C5: a Login with the right secret of a registered user was
\* answered ResourceExhausted, 5 failures of the pair being in the window.
C5_Witness ==
    /\ resp.op = "Login"
    /\ resp.code = "ResourceExhausted"
    /\ RecordedFailures(resp.email, resp.ip, now - RateWindow) >= 5
    /\ \E u \in users : /\ u.email = resp.email
                       /\ ~u.is_deleted
                       /\ u.password.pw = resp.password

\* C6: CheckRateLimit allows a pair exactly when fewer than 5 failed attempts
\* of exactly that pair are on record with a timestamp >= now - window;
\* successes, older attempts and other pairs' attempts do not count.
C6_AllowedIffFewerThanFive ==
    \A e \in Identities, ip \in Origins :
        LET c == CheckRateLimit(attempts, e, ip, now, {})
        IN  /\ c.err = "nil"
            /\ c.allowed <=> RecordedFailures(e, ip, now - RateWindow) < 5

\* Witness of C6: a Login was let through and answered OK while the store
\* holds 5 or more attempts: failures of the pair inside the window, a
\* failure of the pair older than the window, and attempts of another identity.
C6_Witness ==
    /\ resp.op = "Login"
    /\ resp.code = "OK"
    /\ BagCardinality(attempts) >= 5
    /\ RecordedFailures(resp.email, resp.ip, now - RateWindow) >= 1
    /\ RecordedFailures(resp.email, resp.ip, 0) > RecordedFailures(resp.email, resp.ip, now - RateWindow)
    /\ \E d \in DOMAIN attempts : d.email # resp.email

\* C7: a Login answered ResourceExhausted leaves the users, login_attempts and
\* invalidated_tokens collections as they were, and its answer is the same
\* whatever the users collection holds and whether or not the user lookup and
\* the attempt insert would fail: neither is performed.
C7_ThrottledLoginChangesNothing ==
    [][(resp = NoResp /\ resp'.op = "Login" /\ resp'.code = "ResourceExhausted") =>
          /\ users' = users /\ attempts' = attempts /\ tokens' = tokens /\ issued' = issued
          /\ \A md \in Metadata, f \in LoginFaults \ {{"count"}} :
                getClientIP(md) = resp'.ip =>
                    LET req == [email |-> resp'.email, password |-> resp'.password]
                    IN  /\ LoginResult(users, attempts, now, req, md, f).code = "ResourceExhausted"
                        /\ LoginResult({}, attempts, now, req, md, f).code = "ResourceExhausted"
                        /\ LoginResult(users, attempts, now, req, md, f).attempts = attempts]_vars

\* Witness of C7: a Login was answered ResourceExhausted.
C7_Witness ==
    /\ resp.op = "Login"
    /\ resp.code = "ResourceExhausted"
    /\ BagCardinality(attempts) = 5

\* C8 (as claimed): once the window has passed since the last failed attempt
\* of a pair on record, counted to the tick that is exactly one window later,
\* CheckRateLimit allows the pair.
C8_AllowedAtWindowAfterLastFailure ==
    \A e \in Identities, ip \in Origins :
        (HasFailure(e, ip) /\ now >= LastFailure(e, ip) + RateWindow) =>
            CheckRateLimit(attempts, e, ip, now, {}).allowed

\* C8 (amended): at every time later than one window after the last failed
\* attempt of a pair on record, CheckRateLimit allows the pair, however many
\* failures are on record and whatever Logins were turned away meanwhile.
C8_AllowedAfterWindow ==
    \A e \in Identities, ip \in Origins :
        (HasFailure(e, ip) /\ now > LastFailure(e, ip) + RateWindow) =>
            CheckRateLimit(attempts, e, ip, now, {}).allowed

\* Witness of C8: a pair with 5 failures on record, all older than the window,
\* was let through by the limiter: its Login got past the check and added an
\* attempt to the 5.
C8_Witness ==
    /\ resp.op = "Login"
    /\ resp.code \in {"OK", "NotFound", "Unauthenticated"}
    /\ RecordedFailures(resp.email, resp.ip, 0) - RecordedFailures(resp.email, resp.ip, now) >= 5
    /\ RecordedFailures(resp.email, resp.ip, now - RateWindow)
         = RecordedFailures(resp.email, resp.ip, now)

\* C9: a Login returns a token only with status OK, and only when the email
\* and the secret passed validation, fewer than 5 failures of the pair were in
\* the window, an undeleted user with that email exists, the secret is the one
\* its hash was made from, and the user is active.
C9_TokenOnlyIfAllChecksPass ==
    resp.op = "Login" =>
        /\ resp.token # NoToken <=> resp.code = "OK"
        /\ resp.token # NoToken =>
              /\ resp.token \in issued
              /\ resp.email \in {"a@x.com", "b@x.com"}
              /\ resp.password # ""
              /\ RecordedFailures(resp.email, resp.ip, now - RateWindow) < 5
              /\ \E u \in users : /\ u.email = resp.email
                                 /\ ~u.is_deleted
                                 /\ u.is_active
                                 /\ u.password.pw = resp.password
                                 /\ resp.token.sub = u.id

\* Witness of C9: a Login returned a token.
C9_Witness ==
    /\ resp.op = "Login"
    /\ resp.token # NoToken
    /\ RecordedFailures(resp.email, resp.ip, now - RateWindow) = 4

\* C10 (as claimed): after a Register answered OK, a Login with the same
\* identity and secret from an origin that is not throttled is answered OK with
\* a token whose subject is the registered id and adds a successful attempt; a
\* Login with another non-empty secret is answered Unauthenticated and adds a
\* failed attempt.
C10_RegisteredIdentityLogsIn ==
    (resp.op = "Register" /\ resp.code = "OK") =>
        \A md \in Metadata :
            LET ip == getClientIP(md)
                ok == LoginResult(users, attempts, now,
                                  [email |-> resp.email, password |-> resp.password], md, {})
            IN  RecordedFailures(resp.email, ip, now - RateWindow) < 5 =>
                    /\ ok.code = "OK"
                    /\ ok.token.sub = resp.user_id
                    /\ ok.attempts = attempts (+) SetToBag({[email |-> resp.email, ip_address |-> ip,
                                                              timestamp |-> now, success |-> TRUE]})
                    /\ \A p \in Passwords \ {"", resp.password} :
                          LET bad == LoginResult(users, attempts, now,
                                                 [email |-> resp.email, password |-> p], md, {})
                          IN  /\ bad.code = "Unauthenticated"
                              /\ bad.token = NoToken
                              /\ bad.attempts = attempts (+) SetToBag({FailedAttempt(resp.email, ip, now)})

\* C11 (as claimed): a Login with the secret a user registered with, for a
\* user that is marked inactive or deleted, is answered PermissionDenied
\* (or turned away by the limiter before the user is looked up).
C11_DisabledUserPermissionDenied ==
    \A u \in users :
        (u.is_deleted \/ ~u.is_active) =>
            LoginResult(users, attempts, now,
                        [email |-> u.email, password |-> u.password.pw], NoMD, {}).code
                \in {"PermissionDenied", "ResourceExhausted"}

\* C12 (as claimed): a Login with a wrong secret gets the same status code and
\* the same message whether or not a user with that email is stored.
C12_WrongSecretSameError ==
    \A u \in users, p \in Passwords \ {""} :
        (~u.is_deleted /\ p # u.password.pw) =>
            LET with == LoginResult(users, attempts, now,
                                    [email |-> u.email, password |-> p], NoMD, {})
                without == LoginResult(users \ {u}, attempts, now,
                                       [email |-> u.email, password |-> p], NoMD, {})
            IN  /\ with.code = without.code
                /\ with.msg = without.msg

AttemptOf(r, success) ==
    [email |-> r.email, ip_address |-> r.ip, timestamp |-> now, success |-> success]

\* The users collection with one undeleted user marked inactive: the two
\* flags of a User document are independent fields.
Deactivated(us, u) == (us \ {u}) \cup {[u EXCEPT !.is_active = FALSE]}

StoresWithInactive ==
    {users} \cup {Deactivated(users, u) : u \in {v \in users : ~v.is_deleted}}

C14_BlacklistBeforeParsing ==
    \A d \in tokens :
        /\ ValidateToken(tokens, d.token, now, {}).err = "ErrTokenBlacklisted"
        /\ ValidateToken(tokens, d.token, now, {}).claims = NoToken
        /\ ExtractUserIDFromToken(tokens, d.token, now, {}).err = "ErrTokenBlacklisted"

\* Witness of C14: a tampered token with a document in invalidated_tokens was
\* validated and rejected as blacklisted, while an expired one is stored too.
C14_Witness ==
    /\ resp.op = "Validate"
    /\ resp.code = "ErrTokenBlacklisted"
    /\ ParseWithClaims(resp.token, TRUE, now) = "token signature is invalid"
    /\ \E d \in tokens : ParseWithClaims(d.token, TRUE, now) = "token is expired"

\* C15: a correctly signed token without a document in invalidated_tokens
\* fails validation with ErrTokenExpired at every time at or after its exp; a
\* token of a service with tokenTTL = 0 is never validated successfully.
C15_ExpiredAtOrAfterExp ==
    /\ \A t \in issued :
          (FindToken(tokens, t) = {} /\ now >= t.exp) =>
              /\ ValidateToken(tokens, t, now, {}).err = "ErrTokenExpired"
              /\ ValidateToken(tokens, t, now, {}).claims = NoToken
    /\ \A t0 \in 0..now :
          LET t == GenerateTokenTTL("id1", "a@x.com", t0, 0)
          IN  /\ ValidateToken(tokens, t, now, {}).err # "nil"
              /\ FindToken(tokens, t) = {} => ValidateToken(tokens, t, now, {}).err = "ErrTokenExpired"

\* Witness of C15: a token issued with the configured tokenTTL was rejected as
\* expired at exactly its exp, no document being stored for it.
C15_Witness ==
    /\ resp.op = "Validate"
    /\ resp.code = "ErrTokenExpired"
    /\ resp.token \in issued
    /\ resp.token.exp > resp.token.iat
    /\ resp.token.exp = now
    /\ FindToken(tokens, resp.token) = {}

\* C16: a Logout with a non-empty token that does not validate (malformed,
\* tampered, expired or blacklisted) is answered Unauthenticated and leaves
\* invalidated_tokens unchanged; so is every Logout of a token whose Logout
\* was answered OK before.
C16_LogoutOfInvalidToken ==
    [][(resp = NoResp /\ resp'.op = "Logout" /\ resp'.token # EmptyToken) =>
          /\ ValidateToken(tokens, resp'.token, now, {}).err # "nil" =>
                /\ resp'.code = "Unauthenticated"
                /\ tokens' = tokens
                /\ loggedOut' = loggedOut
          /\ resp'.token \in loggedOut =>
                /\ resp'.code = "Unauthenticated"
                /\ tokens' = tokens]_vars

\* Witness of C16: a second Logout of a token was answered Unauthenticated
\* while the document of the first is stored.
C16_Witness ==
    /\ resp.op = "Logout"
    /\ resp.code = "Unauthenticated"
    /\ resp.token \in loggedOut
    /\ FindToken(tokens, resp.token) # {}

\* C17 (as claimed): a Logout of a token that would validate, during which the
\* blacklist lookup or the insert fails, is answered Internal and stores
\* nothing.
C17_LogoutStoreFailureInternal ==
    \A t \in issued, f \in {{"lookup"}, {"insert"}} :
        ValidateToken(tokens, t, now, {}).err = "nil" =>
            /\ LogoutResult(tokens, now, [token |-> t], f).code = "Internal"
            /\ LogoutResult(tokens, now, [token |-> t], f).tokens = tokens

\* C18: InvalidateToken with a user id that is no ObjectID hex fails with
\* "invalid user ID", and with a failing insert fails with "failed to
\* invalidate token"; in both cases invalidated_tokens is unchanged and every
\* token that validated before the call validates after it.
C18_FailedInvalidateKeepsToken ==
    [][(resp = NoResp /\ resp'.op = "Invalidate") =>
          /\ ~ObjectIDFromHex(resp'.user_id) => resp'.code = "invalid user ID"
          /\ resp'.code # "nil" =>
                /\ tokens' = tokens
                /\ \A t \in TokenInputs :
                      ValidateToken(tokens, t, now, {}).err = "nil"
                          => ValidateToken(tokens', t, now', {}).err = "nil"
          /\ LET r == InvalidateToken(tokens, resp'.token, "id1", now, {"insert"})
             IN  r.err = "failed to invalidate token" /\ r.tokens = tokens]_vars

\* Witness of C18: InvalidateToken of a token that validates was refused for
\* its user id, and the token still validates.
C18_Witness ==
    /\ resp.op = "Invalidate"
    /\ resp.code = "invalid user ID"
    /\ resp.token \in issued
    /\ ValidateToken(tokens, resp.token, now, {}).err = "nil"

\* C19 (as claimed): at most one user document is stored per email, and every
\* finished Register call with a valid request, concurrent with others or
\* not, was answered OK or AlreadyExists.
C19_RegisterOnceElseAlreadyExists ==
    /\ \A u1, u2 \in users : u1.email = u2.email => u1 = u2
    /\ \A p \in Procs :
          (calls[p].op = "Register" /\ calls[p].pc = "done") =>
              calls[p].code \in {"OK", "AlreadyExists"}

\* C20: the count query and the insert of a Login are separate steps: every
\* Login past its check saw fewer than 5 failures of its pair, and yet the
\* failures of the pair in one window can exceed 5, by at most one for each
\* other call in flight.
C20_CheckThenRecordOvershoot ==
    /\ \A p \in Procs :
          (calls[p].op = "Login" /\ calls[p].pc \in {"find", "record"}) => calls[p].seen < 5
    /\ \A p \in Procs :
          (calls[p].op = "Login" /\ calls[p].code \in {"NotFound", "Unauthenticated", "OK"})
              => calls[p].seen < 5
    /\ RecordedFailures("a@x.com", "unknown", now - RateWindow) <= 5 + (Cardinality(Procs) - 1)

\* Witness of C20: 6 failed attempts of one pair lie in one window, the last
\* of them recorded by a Login that had counted fewer than 5.
C20_Witness ==
    /\ RecordedFailures("a@x.com", "unknown", now - RateWindow) > 5
    /\ \E p \in Procs : /\ calls[p].op = "Login"
                       /\ calls[p].pc = "done"
                       /\ calls[p].code \in {"NotFound", "Unauthenticated"}
                       /\ calls[p].seen < 5

\* C21: when the blacklist lookup fails, ValidateToken returns the lookup
\* error and no claims for every token string, good, tampered or malformed:
\* nothing is parsed or verified.
C21_ValidateFailsClosed ==
    \A t \in TokenInputs :
        /\ ValidateToken(tokens, t, now, {"lookup"})
               = [err |-> "error checking token blacklist", claims |-> NoToken]
        /\ ExtractUserIDFromToken(tokens, t, now, {"lookup"}).err
               = "error checking token blacklist"

\* Witness of C21: the validation of a token that validates when the lookup
\* works was answered with the lookup error.
C21_Witness ==
    /\ resp.op = "Validate"
    /\ resp.code = "error checking token blacklist"
    /\ resp.token \in issued
    /\ ValidateToken(tokens, resp.token, now, {}).err = "nil"

\* C22: InvalidateToken of a string that does not parse (malformed, wrongly
\* signed or expired) and is not stored yet, with a user id that is an
\* ObjectID hex, succeeds and adds one document for that exact string with
\* expires_at = now + tokenTTL.
C22_UnparsedTokenExpiryFallback ==
    \A t \in TokenInputs, id \in HexIDs :
        (ParseWithClaims(t, FALSE, now) # "nil" /\ FindToken(tokens, t) = {}) =>
            InvalidateToken(tokens, t, id, now, {})
                = [err |-> "nil",
                   tokens |-> tokens \cup {[token |-> t, user_id |-> id,
                                            expires_at |-> now + TokenTTL,
                                            created_at |-> now]}]

\* Witness of C22: an expired token was invalidated directly, and its document
\* expires at now + tokenTTL, while a tampered string is stored too.
C22_Witness ==
    /\ resp.op = "Invalidate"
    /\ resp.code = "nil"
    /\ ParseWithClaims(resp.token, FALSE, now) = "token is expired"
    /\ \E d \in tokens : d.token = resp.token /\ d.expires_at = now + TokenTTL
    /\ \E d \in tokens : ParseWithClaims(d.token, FALSE, now) = "token signature is invalid"

CorrectlySigned(t) == t.form = "jwt" /\ t.alg = "HS256" /\ t.sig = "key"

\* C25: every document of invalidated_tokens whose token string is a
\* correctly signed token has expires_at >= the token's exp, and the TTL purge
\* removes no document whose token would still pass signature and expiry.
C25_RecordOutlivesToken ==
    /\ [](\A d \in tokens : CorrectlySigned(d.token) => d.expires_at >= d.token.exp)
    /\ [][\A d \in tokens \ tokens' : ParseWithClaims(d.token, TRUE, now) # "nil"]_vars

\* Witness of C25: after an InvalidateToken call the store holds the
\* document of a token that still parses, expiring at the token's exp, and the
\* document of an expired, correctly signed token, expiring later than it.
C25_Witness ==
    /\ resp.op = "Invalidate"
    /\ resp.code = "nil"
    /\ \E d \in tokens : /\ CorrectlySigned(d.token)
                        /\ ParseWithClaims(d.token, TRUE, now) = "nil"
                        /\ d.expires_at = d.token.exp
    /\ \E d \in tokens : /\ CorrectlySigned(d.token)
                        /\ d.expires_at > d.token.exp

\* C23: a failed write of the attempt never changes what Login answers: for
\* the request of every Login step, whatever else fails and whether or not the
\* user is marked inactive, LoginResult with the write of login_attempts
\* failing has the code, the message, the token and the user id of LoginResult
\* with the write succeeding, and leaves login_attempts as it found it.
C23_RecordFailureKeepsOutcome ==
    [][(resp = NoResp /\ resp'.op = "Login") =>
          \A us \in StoresWithInactive, md \in Metadata, f \in Faults({"count", "find"}) :
              LET req == [email |-> resp'.email, password |-> resp'.password]
                  ok == LoginResult(us, attempts, now, req, md, f)
                  ko == LoginResult(us, attempts, now, req, md, f \cup {"record"})
              IN  /\ ko.code = ok.code
                  /\ ko.msg = ok.msg
                  /\ ko.token = ok.token
                  /\ ko.user_id = ok.user_id
                  /\ ko.attempts = attempts]_vars

\* Witness of C23: a Login answered OK with its token although no successful
\* attempt of the pair stamped now is on record, and a failure of the pair is.
C23_Witness ==
    /\ resp.op = "Login"
    /\ resp.code = "OK"
    /\ resp.token \in issued
    /\ CopiesIn(AttemptOf(resp, TRUE), attempts) = 0
    /\ HasFailure(resp.email, resp.ip)

\* C24: Login answers with the first failing check, in the order validation,
\* rate limit, user lookup, password, active flag.  On every Login step: a
\* request with an invalid email or an empty password is answered
\* InvalidArgument and adds no attempt, however many failures its pair has; a
\* valid request of a pair with 5 failures in the window is never answered by
\* a later check; and, no store operation failing, for every secret and with
\* the user active or marked inactive, a valid request of an allowed pair is
\* answered NotFound when no undeleted user has the email, else
\* Unauthenticated with one failed attempt added when the secret is wrong
\* (also when the user is inactive), else PermissionDenied when the user is
\* inactive, else OK.
C24_FirstFailingCheck ==
    [][(resp = NoResp /\ resp'.op = "Login") =>
          LET r == resp'
              passed == ValidateEmail(r.email) = "nil" /\ r.password # ""
              throttled == RecordedFailures(r.email, r.ip, now - RateWindow) >= 5
          IN  /\ ~passed => (r.code = "InvalidArgument" /\ r.token = NoToken /\ attempts' = attempts)
              /\ (passed /\ throttled) =>
                    (r.code \in {"ResourceExhausted", "Internal"} /\ attempts' = attempts)
              /\ \A us \in StoresWithInactive, p \in Passwords :
                    LET d == LoginResult(us, attempts, now, [email |-> r.email, password |-> p],
                                         NoMD, {})
                        hit == {u \in us : u.email = r.email /\ ~u.is_deleted}
                        wrong == \A u \in hit : u.password.pw # p
                        inactive == \E u \in hit : ~u.is_active
                        failure == attempts (+) SetToBag({AttemptOf(r, FALSE)})
                    IN  /\ (ValidateEmail(r.email) # "nil" \/ p = "") =>
                              (d.code = "InvalidArgument" /\ d.attempts = attempts)
                        /\ (ValidateEmail(r.email) = "nil" /\ p # "" /\ throttled) =>
                              (d.code = "ResourceExhausted" /\ d.attempts = attempts)
                        /\ (ValidateEmail(r.email) = "nil" /\ p # "" /\ ~throttled) =>
                              /\ hit = {} => (d.code = "NotFound" /\ d.attempts = failure)
                              /\ (hit # {} /\ wrong) =>
                                    (d.code = "Unauthenticated" /\ d.attempts = failure)
                              /\ (hit # {} /\ ~wrong /\ inactive) =>
                                    (d.code = "PermissionDenied" /\ d.attempts = attempts)
                              /\ (hit # {} /\ ~wrong /\ ~inactive) => d.code = "OK"]_vars

\* Witness of C24: a Login with an empty password answered InvalidArgument
\* while its pair has 5 failures in the window and its user is registered.
C24_Witness ==
    /\ resp.op = "Login"
    /\ resp.code = "InvalidArgument"
    /\ resp.password = ""
    /\ ValidateEmail(resp.email) = "nil"
    /\ RecordedFailures(resp.email, resp.ip, now - RateWindow) >= 5
    /\ \E u \in users : u.email = resp.email /\ ~u.is_deleted /\ u.is_active

\* C28: whether a token validates is settled by the token string, the clock
\* and invalidated_tokens alone.  No step at which the clock stands still,
\* other than a Logout of that very token string, changes whether a token
\* validates: not Register, UpdateProfile or DeleteProfile, not a Login (the
\* attempt it records, the token it issues), not a Logout or a Validate of
\* another token, not a purge.  And every token a Login has returned
\* validates as long as it is unexpired and no Logout of it was answered OK,
\* whatever has happened to its user since.
C28_ValidateReadsOnlyBlacklist ==
    /\ [](\A t \in issued :
            (t \notin loggedOut /\ now < t.exp) => ValidateToken(tokens, t, now, {}).err = "nil")
    /\ [][\A t \in TokenInputs :
            (now' = now /\ ~(resp = NoResp /\ resp'.op = "Logout" /\ resp'.token = t)) =>
                (ValidateToken(tokens', t, now', {}).err = "nil"
                    <=> ValidateToken(tokens, t, now, {}).err = "nil")]_vars

\* Witness of C28: a token was validated, with the subject of its user, after
\* that user was deleted and while failed attempts of the user's old and new
\* email are on record or the email had been changed.
C28_Witness ==
    /\ resp.op = "Validate"
    /\ resp.code = "nil"
    /\ resp.token \in issued
    /\ \E u \in users : /\ u.id = resp.user_id
                         /\ u.is_deleted
                         /\ u.email # resp.token.email

\* C26: the failed attempts of a pair in one window exceed 4 by no more than
\* the number of Login calls of the pair that were in flight together.  Only
\* the insert of a Login adds to the failures counted in the window, by one;
\* after the insert of a call the count is at most 4 plus the largest number
\* of calls that were between their count query and their insert together
\* with it, itself included; so after the insert of a call that was in
\* flight alone the count is at most 5.
C26_BoundedOvershoot ==
    [][LET before == RecordedFailures("a@x.com", "unknown", now - RateWindow)
           after == RecordedFailures("a@x.com", "unknown", now - RateWindow)'
       IN  /\ after > before =>
                 /\ after = before + 1
                 /\ \E p \in Procs : calls[p].pc = "record" /\ calls'[p].pc = "done"
           /\ \A p \in Procs :
                 (calls[p].pc = "record" /\ calls'[p].pc = "done") =>
                     /\ calls[p].overlap \in 1..Cardinality(Procs)
                     /\ after <= 4 + calls[p].overlap
                     /\ calls[p].overlap = 1 => after <= 5]_vars

\* Witness of C26: a Login that was in flight together with another has
\* recorded a failure of the pair, and 6 failures lie in the window.
C26_Witness ==
    /\ RecordedFailures("a@x.com", "unknown", now - RateWindow) = 6
    /\ \E p \in Procs : /\ calls[p].op = "Login"
                         /\ calls[p].pc = "done"
                         /\ calls[p].code \in {"NotFound", "Unauthenticated"}
                         /\ calls[p].overlap = 2

\* C27: with Logout calls of one token interleaved in every way, at every
\* moment invalidated_tokens holds at most one document per token string;
\* every token a Logout was answered OK for fails validation from then on; a
\* call that passed its validation is answered OK or, losing the insert to
\* the unique index, Internal, and then another call of the token was
\* answered OK; the losing call leaves invalidated_tokens as it was, with the
\* document of the winner in it, and the winning call adds one document.
C27_ConcurrentLogoutOnce ==
    /\ [](\A d1, d2 \in tokens : d1.token = d2.token => d1 = d2)
    /\ [](\A t \in loggedOut : ValidateToken(tokens, t, now, {}).err # "nil")
    /\ [](\A p \in Procs :
            (calls[p].op = "Logout" /\ calls[p].pc = "done" /\ calls[p].code = "Internal")
                => calls[p].token \in loggedOut)
    /\ [][\A p \in Procs :
            (calls[p].pc = "insert" /\ calls'[p].pc = "done") =>
                /\ calls'[p].code \in {"OK", "Internal"}
                /\ calls'[p].code = "Internal" =>
                      /\ tokens' = tokens
                      /\ FindToken(tokens, calls[p].token) # {}
                /\ calls'[p].code = "OK" =>
                      /\ FindToken(tokens, calls[p].token) = {}
                      /\ Cardinality(FindToken(tokens', calls[p].token)) = 1
                      /\ tokens \subseteq tokens']_vars

\* Witness of C27: two Logout calls of one token both passed validation; one
\* was answered OK, the other Internal, and one document of the token is
\* stored.
C27_Witness ==
    \E p, q \in Procs :
        /\ calls[p].op = "Logout" /\ calls[p].pc = "done" /\ calls[p].code = "OK"
        /\ calls[q].op = "Logout" /\ calls[q].pc = "done" /\ calls[q].code = "Internal"
        /\ calls[p].token = calls[q].token
        /\ calls[p].token \in issued
        /\ Cardinality(FindToken(tokens, calls[p].token)) = 1

====
